---- MODULE Spec2Model ----
(***************************************************************************)
(* Model of nw::PolicyCertVerifier (src/src/policy_cert_verifier.cc): a    *)
(* decorator over a net::CertVerifier engine that prepends policy-supplied *)
(* trust anchors to the engine's configuration and signals, through a      *)
(* callback, every verification that succeeded through such an anchor.     *)
(***************************************************************************)
EXTENDS Integers, Sequences, FiniteSets, TLC

(* ------------------------------ bounds --------------------------------- *)
MaxAnchors == 2        \* longest trust-anchor list passed to SetTrustAnchors
MaxConfigAnchors == 1  \* longest anchor list inside a base configuration
MaxExtendAnchors == 2  \* longest base anchor list fed to ExtendTrustAnchors alone
MaxReqs == 2           \* Verify calls issued in one run
MaxInits == 2          \* InitializeOnIOThread calls in one run
NumResults == 1        \* caller-owned CertVerifyResult objects

(* ----------------------------- value sets ------------------------------ *)
Certs == {"AnchorX", "AnchorY"}
DefaultStore == {"RootD"}

OK == "OK"
ERR_IO_PENDING == "ERR_IO_PENDING"
ERR_CERT_AUTHORITY_INVALID == "ERR_CERT_AUTHORITY_INVALID"
ERR_CERT_DATE_INVALID == "ERR_CERT_DATE_INVALID"

NullCallback == "null"
AnchorUsedCallbacks == {NullCallback, "anchor_used"}

SeqsUpTo(S, n) == UNION {[1..k -> S] : k \in 0..n}
Range(s) == {s[i] : i \in 1..Len(s)}

\* lists of distinct certificate objects, compared element by element
CertificateLists ==
  {l \in SeqsUpTo(Certs, MaxAnchors) : Cardinality(Range(l)) = Len(l)}
ExtendLists == SeqsUpTo(Certs, MaxAnchors)
ConfigCerts == {"AnchorY"}
Configs ==
  [additional_trust_anchors : SeqsUpTo(ConfigCerts, MaxConfigAnchors),
   enable_rev_checking : BOOLEAN]
ExtendConfigs ==
  [additional_trust_anchors : SeqsUpTo(Certs, MaxExtendAnchors),
   enable_rev_checking : BOOLEAN]
DefaultConfig ==
  [additional_trust_anchors |-> <<>>, enable_rev_checking |-> FALSE]

\* a CertVerifyProc: whether it honours additional trust anchors
Procs == [supports : BOOLEAN]
NoProc == [supports |-> FALSE]

ResultIds == 1..NumResults
EmptyResult == [is_issued_by_additional_trust_anchor |-> FALSE]

NullDelegate ==
  [bound |-> FALSE, id |-> 0, proc |-> NoProc, config |-> DefaultConfig]
NotHalted == [op |-> "none", build |-> "none", at |-> "none"]

VARIABLES
  anchor_used_callback_,  \* the RepeatingClosure stored by the constructor
  orig_config_,           \* stored base configuration
  trust_anchors_,         \* stored trust-anchor list
  delegate_,              \* the bound engine (CachingCertVerifier) or null
  results,                \* the callers' CertVerifyResult objects
  reqs,                   \* one record per Verify call, in call order
  halted,                 \* where the process died, if it did
  last,                   \* the last operation and the engine calls it made
  arg_config, arg_trust_anchors, ret_config, ext_pc
                          \* one isolated call of ExtendTrustAnchors

vars == <<anchor_used_callback_, orig_config_, trust_anchors_, delegate_,
          results, reqs, halted, last,
          arg_config, arg_trust_anchors, ret_config, ext_pc>>
extvars == <<arg_config, arg_trust_anchors, ret_config, ext_pc>>
objvars == <<anchor_used_callback_, orig_config_, trust_anchors_, delegate_,
             results, reqs, halted, last>>

(* --------------------------- free functions ---------------------------- *)
\* std::vector::insert(pos, first, last): the range goes in front of the
\* element at index pos (1-based; Len+1 is end())
VectorInsert(vec, pos, range) ==
  SubSeq(vec, 1, pos - 1) \o range \o SubSeq(vec, pos, Len(vec))

\* the check without its test of the status code
MaybeSignalAnchorUseAnyStatus(error, anchor_used_callback, verify_result) ==
  IF ~verify_result.is_issued_by_additional_trust_anchor
     \/ anchor_used_callback = NullCallback
  THEN FALSE
  ELSE TRUE

\* the check with a pending status let through like a success
MaybeSignalAnchorUsePendingToo(error, anchor_used_callback, verify_result) ==
  IF error \notin {OK, ERR_IO_PENDING}
     \/ ~verify_result.is_issued_by_additional_trust_anchor
     \/ anchor_used_callback = NullCallback
  THEN FALSE
  ELSE TRUE

\* does the anchor-used callback run for this (error, result)?
MaybeSignalAnchorUse(error, anchor_used_callback, verify_result) ==
  IF error # OK
     \/ ~verify_result.is_issued_by_additional_trust_anchor
     \/ anchor_used_callback = NullCallback
  THEN FALSE
  ELSE TRUE

\* the wrapped completion with its two statements in the other order
CompleteThenSignalAnchorUse(anchor_used_callback, verify_result, error) ==
  [events |->
     <<"completion">> \o
     (IF MaybeSignalAnchorUse(error, anchor_used_callback, verify_result)
      THEN <<"anchor_used">> ELSE <<>>),
   completion_arg |-> error]

\* a wrapped completion that returns after signalling
SignalOrComplete(anchor_used_callback, verify_result, error) ==
  [events |->
     IF MaybeSignalAnchorUse(error, anchor_used_callback, verify_result)
     THEN <<"anchor_used">> ELSE <<"completion">>,
   completion_arg |->
     IF MaybeSignalAnchorUse(error, anchor_used_callback, verify_result)
     THEN "none" ELSE error]

\* a wrapped completion that signals only while anchors are still stored
CompleteAndSignalIfStillStored(anchor_used_callback, verify_result, error) ==
  [events |->
     (IF /\ MaybeSignalAnchorUse(error, anchor_used_callback, verify_result)
         /\ trust_anchors_ # <<>>
      THEN <<"anchor_used">> ELSE <<>>) \o <<"completion">>,
   completion_arg |-> error]

\* what the wrapped completion does, in order, and what it hands on
CompleteAndSignalAnchorUse(anchor_used_callback, verify_result, error) ==
  [events |->
     (IF MaybeSignalAnchorUse(error, anchor_used_callback, verify_result)
      THEN <<"anchor_used">> ELSE <<>>) \o <<"completion">>,
   completion_arg |-> error]

\* the derivation with the new anchors inserted at end() instead of begin()
ExtendTrustAnchorsAtEnd(config, trust_anchors) ==
  LET new_config == config
  IN [new_config EXCEPT !.additional_trust_anchors =
        VectorInsert(new_config.additional_trust_anchors,
                     Len(new_config.additional_trust_anchors) + 1,
                     trust_anchors)]

ExtendTrustAnchors(config, trust_anchors) ==
  LET new_config == config
  IN [new_config EXCEPT !.additional_trust_anchors =
        VectorInsert(new_config.additional_trust_anchors, 1, trust_anchors)]

(* ------------------------ the engine (delegate_) ----------------------- *)
\* net::CertVerifier::SetConfig on the engine: the configuration is replaced
EngineSetConfig(engine, config) == [engine EXCEPT !.config = config]

\* what the engine decides for a request under its applied configuration: a
\* chain is trusted iff its issuer is in the default store or, when the
\* procedure supports them, among the configuration's additional anchors
EngineVerify(engine, params) ==
  LET inStore == params.issuer \in DefaultStore
      viaAnchor == /\ engine.proc.supports
                   /\ params.issuer \in
                        Range(engine.config.additional_trust_anchors)
  IN [error |-> IF ~(inStore \/ viaAnchor) THEN ERR_CERT_AUTHORITY_INVALID
                ELSE IF params.expired THEN ERR_CERT_DATE_INVALID
                ELSE OK,
      result |-> [is_issued_by_additional_trust_anchor |->
                    viaAnchor /\ ~inStore]]

RequestParams ==
  {[issuer |-> "AnchorX", expired |-> FALSE],
   [issuer |-> "AnchorX", expired |-> TRUE],
   [issuer |-> "RootD", expired |-> FALSE]}

(* ------------------------------ bookkeeping ---------------------------- *)
Note(op, calls, anchors, warned) ==
  [op |-> op, engine_calls |-> calls,
   anchors |-> anchors, warned |-> warned,
   repeat |-> /\ op = "SetTrustAnchors"
              /\ last.op = "SetTrustAnchors"
              /\ last.anchors = anchors]

\* operator-> on a null std::unique_ptr followed by a virtual call
NullDerefOutcomes == {"hardening_trap", "segv"}
Builds == {"dcheck", "release"}

(* ------------------------------- Init ---------------------------------- *)
Construct(anchor_used_callback) ==
  /\ anchor_used_callback_ = anchor_used_callback
  /\ orig_config_ = DefaultConfig
  /\ trust_anchors_ = <<>>
  /\ delegate_ = NullDelegate

Init ==
  /\ \E cb \in AnchorUsedCallbacks : Construct(cb)
  /\ results = [r \in ResultIds |-> EmptyResult]
  /\ reqs = <<>>
  /\ halted = NotHalted
  /\ last = [op |-> "Construct", engine_calls |-> 0,
             anchors |-> <<>>, warned |-> FALSE, repeat |-> FALSE]
  /\ arg_config = DefaultConfig
  /\ arg_trust_anchors = <<>>
  /\ ret_config = DefaultConfig
  /\ ext_pc = "idle"

(* ------------------------------ operations ----------------------------- *)
\* an initialization that gives up after the warning
InitializeOnIOThreadNeedsSupport(verify_proc) ==
  /\ halted = NotHalted
  /\ delegate_.id < MaxInits
  /\ IF ~verify_proc.supports
     THEN /\ last' = Note("Initialize", 0, <<>>, TRUE)
          /\ UNCHANGED <<delegate_, reqs>>
     ELSE /\ delegate_' =
               EngineSetConfig(
                 [bound |-> TRUE, id |-> delegate_.id + 1,
                  proc |-> verify_proc, config |-> DefaultConfig],
                 ExtendTrustAnchors(orig_config_, trust_anchors_))
          /\ reqs' = [i \in 1..Len(reqs) |->
                       IF reqs[i].state = "pending"
                       THEN [reqs[i] EXCEPT !.state = "cancelled"]
                       ELSE reqs[i]]
          /\ last' = Note("Initialize", 1, <<>>, FALSE)
  /\ UNCHANGED <<anchor_used_callback_, orig_config_, trust_anchors_,
                 results, halted>>
  /\ UNCHANGED extvars

\* an initialization that applies the base configuration as it is
InitializeOnIOThreadBaseOnly(verify_proc) ==
  /\ halted = NotHalted
  /\ delegate_.id < MaxInits
  /\ delegate_' =
       EngineSetConfig(
         [bound |-> TRUE, id |-> delegate_.id + 1, proc |-> verify_proc,
          config |-> DefaultConfig],
         orig_config_)
  /\ reqs' = [i \in 1..Len(reqs) |->
               IF reqs[i].state = "pending"
               THEN [reqs[i] EXCEPT !.state = "cancelled"] ELSE reqs[i]]
  /\ last' = Note("Initialize", 1, <<>>, ~verify_proc.supports)
  /\ UNCHANGED <<anchor_used_callback_, orig_config_, trust_anchors_,
                 results, halted>>
  /\ UNCHANGED extvars

InitializeOnIOThread(verify_proc) ==
  /\ halted = NotHalted
  /\ delegate_.id < MaxInits
  /\ delegate_' =
       EngineSetConfig(
         [bound |-> TRUE, id |-> delegate_.id + 1, proc |-> verify_proc,
          config |-> DefaultConfig],
         ExtendTrustAnchors(orig_config_, trust_anchors_))
  \* the previous engine, if any, is destroyed with its outstanding requests
  /\ reqs' = [i \in 1..Len(reqs) |->
               IF reqs[i].state = "pending"
               THEN [reqs[i] EXCEPT !.state = "cancelled"] ELSE reqs[i]]
  /\ last' = Note("Initialize", 1, <<>>, ~verify_proc.supports)
  /\ UNCHANGED <<anchor_used_callback_, orig_config_, trust_anchors_,
                 results, halted>>
  /\ UNCHANGED extvars

\* a SetTrustAnchors that compares the two lists as sets
SetTrustAnchorsSetCompare(trust_anchors) ==
  /\ halted = NotHalted
  /\ IF Range(trust_anchors) = Range(trust_anchors_)
     THEN /\ last' = Note("SetTrustAnchors", 0, trust_anchors, FALSE)
          /\ UNCHANGED <<trust_anchors_, delegate_>>
     ELSE /\ trust_anchors_' = trust_anchors
          /\ IF ~delegate_.bound
             THEN /\ last' = Note("SetTrustAnchors", 0, trust_anchors, FALSE)
                  /\ UNCHANGED delegate_
             ELSE /\ delegate_' =
                       EngineSetConfig(
                         delegate_,
                         ExtendTrustAnchors(orig_config_, trust_anchors_'))
                  /\ last' = Note("SetTrustAnchors", 1, trust_anchors, FALSE)
  /\ UNCHANGED <<anchor_used_callback_, orig_config_, results, reqs, halted>>
  /\ UNCHANGED extvars

\* a SetTrustAnchors that keeps the extended configuration as the new base
SetTrustAnchorsAccumulating(trust_anchors) ==
  /\ halted = NotHalted
  /\ IF trust_anchors = trust_anchors_
     THEN /\ last' = Note("SetTrustAnchors", 0, trust_anchors, FALSE)
          /\ UNCHANGED <<trust_anchors_, delegate_, orig_config_>>
     ELSE /\ trust_anchors_' = trust_anchors
          /\ IF ~delegate_.bound
             THEN /\ last' = Note("SetTrustAnchors", 0, trust_anchors, FALSE)
                  /\ UNCHANGED <<delegate_, orig_config_>>
             ELSE /\ orig_config_' =
                       ExtendTrustAnchors(orig_config_, trust_anchors_')
                  /\ delegate_' = EngineSetConfig(delegate_, orig_config_')
                  /\ last' = Note("SetTrustAnchors", 1, trust_anchors, FALSE)
  /\ UNCHANGED <<anchor_used_callback_, results, reqs, halted>>
  /\ UNCHANGED extvars

\* a SetTrustAnchors without the comparison against the stored list
SetTrustAnchorsAlways(trust_anchors) ==
  /\ halted = NotHalted
  /\ trust_anchors_' = trust_anchors
  /\ IF ~delegate_.bound
     THEN /\ last' = Note("SetTrustAnchors", 0, trust_anchors, FALSE)
          /\ UNCHANGED delegate_
     ELSE /\ delegate_' =
               EngineSetConfig(
                 delegate_, ExtendTrustAnchors(orig_config_, trust_anchors_'))
          /\ last' = Note("SetTrustAnchors", 1, trust_anchors, FALSE)
  /\ UNCHANGED <<anchor_used_callback_, orig_config_, results, reqs, halted>>
  /\ UNCHANGED extvars

\* a SetTrustAnchors that stores the list and leaves the engine alone
SetTrustAnchorsStoreOnly(trust_anchors) ==
  /\ halted = NotHalted
  /\ trust_anchors_' = trust_anchors
  /\ last' = Note("SetTrustAnchors", 0, trust_anchors, FALSE)
  /\ UNCHANGED <<anchor_used_callback_, orig_config_, delegate_, results,
                 reqs, halted>>
  /\ UNCHANGED extvars

SetTrustAnchors(trust_anchors) ==
  /\ halted = NotHalted
  /\ IF trust_anchors = trust_anchors_
     THEN /\ last' = Note("SetTrustAnchors", 0, trust_anchors, FALSE)
          /\ UNCHANGED <<trust_anchors_, delegate_>>
     ELSE /\ trust_anchors_' = trust_anchors
          /\ IF ~delegate_.bound
             THEN /\ last' = Note("SetTrustAnchors", 0, trust_anchors, FALSE)
                  /\ UNCHANGED delegate_
             ELSE /\ delegate_' =
                       EngineSetConfig(
                         delegate_,
                         ExtendTrustAnchors(orig_config_, trust_anchors_'))
                  /\ last' = Note("SetTrustAnchors", 1, trust_anchors, FALSE)
  /\ UNCHANGED <<anchor_used_callback_, orig_config_, results, reqs, halted>>
  /\ UNCHANGED extvars

\* a SetConfig that stores the configuration and leaves the engine alone
SetConfigStoreOnly(config) ==
  /\ halted = NotHalted
  /\ delegate_.bound
  /\ orig_config_' = config
  /\ last' = Note("SetConfig", 0, <<>>, FALSE)
  /\ UNCHANGED <<anchor_used_callback_, trust_anchors_, delegate_, results,
                 reqs, halted>>
  /\ UNCHANGED extvars

SetConfig(config) ==
  /\ halted = NotHalted
  /\ orig_config_' = config
  /\ IF delegate_.bound
     THEN /\ delegate_' =
               EngineSetConfig(
                 delegate_, ExtendTrustAnchors(orig_config_', trust_anchors_))
          /\ last' = Note("SetConfig", 1, <<>>, FALSE)
          /\ UNCHANGED halted
     ELSE \* no check precedes the dereference of the null delegate_
          /\ \E b \in Builds, a \in NullDerefOutcomes :
               halted' = [op |-> "SetConfig", build |-> b, at |-> a]
          /\ last' = Note("SetConfig", 0, <<>>, FALSE)
          /\ UNCHANGED delegate_
  /\ UNCHANGED <<anchor_used_callback_, trust_anchors_, results, reqs>>
  /\ UNCHANGED extvars

\* a Verify that reports every failure as one generic error
VerifyReturnRecoded(error, anchor_used_callback, verify_result) ==
  [events |->
     (IF MaybeSignalAnchorUse(error, anchor_used_callback, verify_result)
      THEN <<"anchor_used">> ELSE <<>>) \o <<"return">>,
   ret |-> IF error \in {OK, ERR_IO_PENDING}
           THEN error ELSE ERR_CERT_AUTHORITY_INVALID]

\* the synchronous check after the engine call, then the return
VerifyReturn(error, anchor_used_callback, verify_result) ==
  [events |->
     (IF MaybeSignalAnchorUse(error, anchor_used_callback, verify_result)
      THEN <<"anchor_used">> ELSE <<>>) \o <<"return">>,
   ret |-> error]

Verify(params, verify_result) ==
  /\ halted = NotHalted
  /\ Len(reqs) < MaxReqs
  /\ IF ~delegate_.bound
     THEN \* DCHECK(delegate_) stops a DCHECK build; other builds go on to
          \* dereference the null delegate_
          /\ \E h \in {[op |-> "Verify", build |-> "dcheck", at |-> "DCHECK"]}
                      \cup {[op |-> "Verify", build |-> "release", at |-> a] :
                              a \in NullDerefOutcomes} :
               halted' = h
          /\ UNCHANGED <<results, reqs>>
     ELSE /\ \E sync \in BOOLEAN :
               LET out == EngineVerify(delegate_, params)
                   error == IF sync THEN out.error ELSE ERR_IO_PENDING
                   written == IF sync
                              THEN [results EXCEPT ![verify_result] = out.result]
                              ELSE results
                   v == VerifyReturn(error, anchor_used_callback_,
                                     written[verify_result])
               IN /\ results' = written
                  /\ reqs' = Append(reqs,
                       [params |-> params,
                        verify_result |-> verify_result,
                        anchor_used_callback |-> anchor_used_callback_,
                        job |-> out,
                        state |-> IF sync THEN "done" ELSE "pending",
                        engine_ret |-> error,
                        ret |-> v.ret,
                        delivered |-> "none",
                        completion_arg |-> "none",
                        seen |-> written[verify_result],
                        events |-> v.events])
          /\ UNCHANGED halted
  /\ last' = Note("Verify", 0, <<>>, FALSE)
  /\ UNCHANGED <<anchor_used_callback_, orig_config_, trust_anchors_,
                 delegate_>>
  /\ UNCHANGED extvars

\* a completion that reaches the wrapped callback of a cancelled request too
CompleteDetached(i) ==
  /\ halted = NotHalted
  /\ reqs[i].state \in {"pending", "cancelled"}
  /\ delegate_.bound
  /\ LET q == reqs[i]
         written == [results EXCEPT ![q.verify_result] = q.job.result]
         c == CompleteAndSignalAnchorUse(q.anchor_used_callback,
                                         written[q.verify_result], q.job.error)
     IN /\ results' = written
        /\ reqs' = [reqs EXCEPT ![i] =
             [q EXCEPT !.state = "done",
                       !.delivered = q.job.error,
                       !.completion_arg = c.completion_arg,
                       !.seen = written[q.verify_result],
                       !.events = @ \o c.events]]
  /\ last' = Note("Complete", 0, <<>>, FALSE)
  /\ UNCHANGED <<anchor_used_callback_, orig_config_, trust_anchors_,
                 delegate_, halted>>
  /\ UNCHANGED extvars

\* the bound engine finishes a pending request: it fills in the caller's
\* result and runs the wrapped callback with the job's status
Complete(i) ==
  /\ halted = NotHalted
  /\ reqs[i].state = "pending"
  /\ delegate_.bound
  /\ LET q == reqs[i]
         written == [results EXCEPT ![q.verify_result] = q.job.result]
         c == CompleteAndSignalAnchorUse(q.anchor_used_callback,
                                         written[q.verify_result], q.job.error)
     IN /\ results' = written
        /\ reqs' = [reqs EXCEPT ![i] =
             [q EXCEPT !.state = "done",
                       !.delivered = q.job.error,
                       !.completion_arg = c.completion_arg,
                       !.seen = written[q.verify_result],
                       !.events = @ \o c.events]]
  /\ last' = Note("Complete", 0, <<>>, FALSE)
  /\ UNCHANGED <<anchor_used_callback_, orig_config_, trust_anchors_,
                 delegate_, halted>>
  /\ UNCHANGED extvars

\* the caller destroys the request handle of a pending request
Cancel(i) ==
  /\ halted = NotHalted
  /\ reqs[i].state = "pending"
  /\ reqs' = [reqs EXCEPT ![i].state = "cancelled"]
  /\ last' = Note("Cancel", 0, <<>>, FALSE)
  /\ UNCHANGED <<anchor_used_callback_, orig_config_, trust_anchors_,
                 delegate_, results, halted>>
  /\ UNCHANGED extvars

Next ==
  \/ \E verify_proc \in Procs : InitializeOnIOThread(verify_proc)
  \/ \E trust_anchors \in CertificateLists : SetTrustAnchors(trust_anchors)
  \/ \E config \in Configs : SetConfig(config)
  \/ \E params \in RequestParams, r \in ResultIds : Verify(params, r)
  \/ \E i \in 1..Len(reqs) : Complete(i)
  \/ \E i \in 1..Len(reqs) : Cancel(i)

Spec == Init /\ [][Next]_vars

(* ------------------ ExtendTrustAnchors called on its own --------------- *)
InitExtend ==
  /\ Construct(NullCallback)
  /\ results = [r \in ResultIds |-> EmptyResult]
  /\ reqs = <<>>
  /\ halted = NotHalted
  /\ last = [op |-> "Construct", engine_calls |-> 0,
             anchors |-> <<>>, warned |-> FALSE, repeat |-> FALSE]
  /\ arg_config \in ExtendConfigs
  /\ arg_trust_anchors \in ExtendLists
  /\ ret_config = DefaultConfig
  /\ ext_pc = "call"

CallExtendTrustAnchors ==
  /\ ext_pc = "call"
  /\ ret_config' = ExtendTrustAnchors(arg_config, arg_trust_anchors)
  /\ ext_pc' = "returned"
  /\ UNCHANGED <<arg_config, arg_trust_anchors>>
  /\ UNCHANGED objvars

NextExtend == CallExtendTrustAnchors

SpecExtend == InitExtend /\ [][NextExtend]_vars

(* ------------------------------- claims -------------------------------- *)
Count(seq, x) == Cardinality({k \in 1..Len(seq) : seq[k] = x})
Async(q) == q.engine_ret = ERR_IO_PENDING
Flagged(q) ==
  /\ q.state = "done"
  /\ q.job.error = OK
  /\ q.job.result.is_issued_by_additional_trust_anchor

\* C1: a request that completes, synchronously or asynchronously, with success
\* and a result flagged as issued by an additional trust anchor, on a verifier
\* with a non-null callback, runs the anchor-used callback exactly once: before
\* Verify returns when it completed synchronously, and after Verify returned
\* pending but before the caller's completion callback otherwise.
C1_SignalledOnceBeforeCompletion ==
  \A i \in 1..Len(reqs) :
    (Flagged(reqs[i]) /\ reqs[i].anchor_used_callback # NullCallback)
      => /\ Count(reqs[i].events, "anchor_used") = 1
         /\ reqs[i].events =
              IF Async(reqs[i])
              THEN <<"return", "anchor_used", "completion">>
              ELSE <<"anchor_used", "return">>

C1_Witness ==
  /\ Len(reqs) = 2
  /\ anchor_used_callback_ # NullCallback
  /\ Flagged(reqs[1]) /\ Async(reqs[1])
  /\ Flagged(reqs[2]) /\ ~Async(reqs[2])
  /\ "anchor_used" \in Range(reqs[1].events)
  /\ "anchor_used" \in Range(reqs[2].events)
  /\ last.op = "Complete"

\* C2: a request that completes with a failure status, or with success and the
\* flag unset, and any request of a verifier built with a null callback, never
\* runs the anchor-used callback.
C2_NeverSignalledOtherwise ==
  \A i \in 1..Len(reqs) :
    (\/ reqs[i].state = "done" /\ reqs[i].job.error # OK
     \/ /\ reqs[i].state = "done"
        /\ ~reqs[i].job.result.is_issued_by_additional_trust_anchor
     \/ anchor_used_callback_ = NullCallback)
      => "anchor_used" \notin Range(reqs[i].events)

C2_Witness ==
  /\ Len(reqs) = 2
  /\ anchor_used_callback_ # NullCallback
  /\ reqs[1].state = "done" /\ Async(reqs[1])
  /\ reqs[1].job.error = ERR_CERT_DATE_INVALID
  /\ reqs[1].job.result.is_issued_by_additional_trust_anchor
  /\ reqs[2].state = "done" /\ reqs[2].job.error = OK
  /\ ~reqs[2].job.result.is_issued_by_additional_trust_anchor
  /\ \A i \in 1..2 : "anchor_used" \notin Range(reqs[i].events)

\* C3: Verify returns the status the engine's Verify returned, the caller's
\* completion callback receives the status the engine delivered, and the
\* caller's result is the one the engine produced, whether or not the
\* anchor-used callback ran.
C3_StatusPassedThrough ==
  \A i \in 1..Len(reqs) :
    /\ reqs[i].ret = reqs[i].engine_ret
    /\ (reqs[i].state = "done" /\ ~Async(reqs[i]))
         => reqs[i].ret = reqs[i].job.error
    /\ (reqs[i].state = "done" /\ Async(reqs[i]))
         => /\ reqs[i].delivered = reqs[i].job.error
            /\ reqs[i].completion_arg = reqs[i].delivered
    /\ reqs[i].state = "done" => reqs[i].seen = reqs[i].job.result

C3_Witness ==
  /\ Len(reqs) = 2
  /\ reqs[1].state = "done" /\ ~Async(reqs[1])
  /\ reqs[1].ret = ERR_CERT_DATE_INVALID
  /\ reqs[2].state = "done" /\ Async(reqs[2])
  /\ reqs[2].completion_arg = OK
  /\ "anchor_used" \in Range(reqs[2].events)

\* C4: whenever an engine is bound, the configuration last applied to it is
\* the stored base configuration with the stored trust anchors put in front
\* of the base configuration's own anchors.
C4_EngineConfigIsEffective ==
  delegate_.bound =>
    delegate_.config =
      [orig_config_ EXCEPT !.additional_trust_anchors = trust_anchors_ \o @]

C4_Witness ==
  /\ delegate_.bound
  /\ last.op = "SetConfig"
  /\ trust_anchors_ = <<"AnchorX", "AnchorY">>
  /\ orig_config_.additional_trust_anchors = <<"AnchorY">>
  /\ orig_config_.enable_rev_checking

\* C5: ExtendTrustAnchors(C, A) returns a configuration whose anchor list is A
\* followed by C's anchors, in order, nothing dropped or repeated, whose other
\* fields are C's, and it leaves C and A as they were.
C5_ExtendPrepends ==
  [][(ext_pc = "call" /\ ext_pc' = "returned")
       => /\ ret_config'.additional_trust_anchors =
               arg_trust_anchors \o arg_config.additional_trust_anchors
          /\ ret_config'.enable_rev_checking = arg_config.enable_rev_checking
          /\ DOMAIN ret_config' = DOMAIN arg_config
          /\ arg_config' = arg_config
          /\ arg_trust_anchors' = arg_trust_anchors]_vars

C5_Witness ==
  /\ ext_pc = "returned"
  /\ arg_trust_anchors = <<"AnchorX", "AnchorY">>
  /\ arg_config.additional_trust_anchors = <<"AnchorY", "AnchorX">>
  /\ arg_config.enable_rev_checking
  /\ Len(ret_config.additional_trust_anchors) = 4

\* C6: a SetTrustAnchors(A) that directly follows a SetTrustAnchors(A) makes no
\* SetConfig call on the engine and changes nothing of the verifier.
C6_RepeatedSetTrustAnchorsIsNoop ==
  [][(last'.op = "SetTrustAnchors" /\ last'.repeat)
       => /\ last'.engine_calls = 0
          /\ UNCHANGED <<anchor_used_callback_, orig_config_, trust_anchors_,
                         delegate_, results, reqs, halted>>]_vars

C6_Witness ==
  /\ last.op = "SetTrustAnchors"
  /\ last.repeat
  /\ last.anchors = <<"AnchorX">>
  /\ delegate_.bound
  /\ delegate_.config.additional_trust_anchors = <<"AnchorX", "AnchorY">>

\* C7: once an engine is bound, no operation replaces or unbinds it.
C7_EngineNeverReplaced ==
  [][delegate_.bound
       => (delegate_'.bound /\ delegate_'.id = delegate_.id)]_vars

\* C8: in a build with precondition checks, a Verify or a SetConfig on a
\* verifier with no engine stops at a precondition check of that operation.
C8_PreconditionChecked ==
  (halted # NotHalted /\ halted.build = "dcheck") => halted.at = "DCHECK"

\* C9: a SetTrustAnchors on a verifier with no engine calls no engine and only
\* stores its argument, and the one configuration InitializeOnIOThread applies
\* to the engine it binds has the stored anchors in front of the base
\* configuration's anchors.
C9_AnchorsStoredUntilInitialize ==
  [][/\ (last'.op = "SetTrustAnchors" /\ ~delegate_.bound)
          => /\ last'.engine_calls = 0
             /\ trust_anchors_' = last'.anchors
             /\ UNCHANGED <<anchor_used_callback_, orig_config_, delegate_,
                            results, reqs, halted>>
     /\ (last'.op = "Initialize")
          => /\ delegate_'.bound
             /\ last'.engine_calls = 1
             /\ delegate_'.config.additional_trust_anchors =
                  trust_anchors_ \o orig_config_.additional_trust_anchors
             /\ trust_anchors_' = trust_anchors_]_vars

C9_Witness ==
  /\ last.op = "Initialize"
  /\ delegate_.id = 1
  /\ trust_anchors_ = <<"AnchorY", "AnchorX">>
  /\ delegate_.config.additional_trust_anchors = <<"AnchorY", "AnchorX">>

ChainX == [issuer |-> "AnchorX", expired |-> FALSE]

\* C10: on an engine whose procedure supports additional anchors, a Verify of
\* an otherwise valid chain issued by AnchorX succeeds while AnchorX is among
\* the stored anchors, and the callback (if any) runs once for it; once the
\* stored anchors are empty and the base configuration does not hold AnchorX,
\* the same Verify fails with an untrusted issuer and the callback does not
\* run; a pending one is completed with the status decided for it.
C10_RemovedAnchorNoLongerTrusted ==
  [][/\ (/\ last'.op = "Verify"
         /\ Len(reqs') = Len(reqs) + 1
         /\ delegate_.proc.supports
         /\ reqs'[Len(reqs')].params = ChainX)
          => LET q == reqs'[Len(reqs')]
             IN /\ "AnchorX" \in Range(trust_anchors_)
                     => /\ q.job.error = OK
                        /\ q.state = "done"
                             => /\ q.ret = OK
                                /\ Count(q.events, "anchor_used") =
                                     IF anchor_used_callback_ # NullCallback
                                     THEN 1 ELSE 0
                /\ (/\ trust_anchors_ = <<>>
                    /\ "AnchorX" \notin
                         Range(orig_config_.additional_trust_anchors))
                     => /\ q.job.error = ERR_CERT_AUTHORITY_INVALID
                        /\ q.state = "done"
                             => q.ret = ERR_CERT_AUTHORITY_INVALID
                        /\ "anchor_used" \notin Range(q.events)
     /\ (last'.op = "Complete")
          => \A i \in 1..Len(reqs) :
               (reqs[i].state = "pending" /\ reqs'[i].state = "done"
                  /\ reqs[i].params = ChainX)
                 => /\ reqs'[i].completion_arg = reqs[i].job.error
                    /\ Count(reqs'[i].events, "anchor_used") =
                         IF /\ reqs[i].job.error = OK
                            /\ anchor_used_callback_ # NullCallback
                         THEN 1 ELSE 0]_vars

C10_Witness ==
  /\ Len(reqs) = 2
  /\ delegate_.proc.supports
  /\ anchor_used_callback_ # NullCallback
  /\ reqs[1].params = ChainX /\ reqs[1].state = "done" /\ reqs[1].ret = OK
  /\ Count(reqs[1].events, "anchor_used") = 1
  /\ trust_anchors_ = <<>>
  /\ last.op = "Verify"
  /\ reqs[2].params = ChainX /\ reqs[2].state = "done"
  /\ reqs[2].ret = ERR_CERT_AUTHORITY_INVALID
  /\ "anchor_used" \notin Range(reqs[2].events)

\* C11: InitializeOnIOThread with a procedure that does not support additional
\* trust anchors logs a warning and otherwise does what it does with one that
\* supports them: it binds the engine and applies to it, in one call, the
\* base configuration with the stored anchors in front.
C11_UnsupportedStillInitializes ==
  [][(last'.op = "Initialize")
       => /\ delegate_'.bound
          /\ delegate_'.id = delegate_.id + 1
          /\ halted' = NotHalted
          /\ last'.warned = ~delegate_'.proc.supports
          /\ last'.engine_calls = 1
          /\ delegate_'.config =
               [orig_config_ EXCEPT
                  !.additional_trust_anchors = trust_anchors_ \o @]
          /\ UNCHANGED <<anchor_used_callback_, orig_config_, trust_anchors_,
                         results>>]_vars

C11_Witness ==
  /\ last.op = "Initialize"
  /\ last.warned
  /\ delegate_.bound
  /\ ~delegate_.proc.supports
  /\ delegate_.config.additional_trust_anchors = <<"AnchorX">>

\* C12: a request whose Verify returned pending and whose handle was destroyed
\* (or whose engine was destroyed) before the engine completed it never has
\* its completion callback run, nor the anchor-used callback.
C12_CancelledNeverCompletes ==
  [][\A i \in 1..Len(reqs') :
       /\ reqs'[i].state = "cancelled"
            => /\ reqs'[i].events = <<"return">>
               /\ reqs'[i].completion_arg = "none"
               /\ reqs'[i].ret = ERR_IO_PENDING
       /\ (i <= Len(reqs) /\ reqs[i].state = "cancelled")
            => reqs'[i] = reqs[i]]_vars

C12_Witness ==
  /\ Len(reqs) = 2
  /\ anchor_used_callback_ # NullCallback
  /\ reqs[1].state = "cancelled"
  /\ reqs[1].job.error = OK
  /\ reqs[1].job.result.is_issued_by_additional_trust_anchor
  /\ reqs[2].state = "done" /\ Async(reqs[2])
  /\ last.op = "Complete"

\* C13: SetTrustAnchors(N) calls SetConfig on the engine exactly once when an
\* engine is bound and N differs from the stored list in length or in some
\* position, and not at all otherwise.
SameList(a, b) == Len(a) = Len(b) /\ \A k \in 1..Len(a) : a[k] = b[k]

C13_OneCallIffChanged ==
  [][(last'.op = "SetTrustAnchors")
       => last'.engine_calls =
            IF delegate_.bound /\ ~SameList(last'.anchors, trust_anchors_)
            THEN 1 ELSE 0]_vars

C13_Witness ==
  /\ last.op = "SetTrustAnchors"
  /\ last.engine_calls = 1
  /\ last.anchors = <<"AnchorY", "AnchorX">>
  /\ delegate_.bound
  /\ delegate_.id = 1
  /\ delegate_.config.additional_trust_anchors = <<"AnchorY", "AnchorX">>

\* C14: only SetConfig changes the stored base configuration, only
\* SetTrustAnchors changes the stored anchor list, and nothing changes the
\* callback given to the constructor.
C14_StoredStateFrame ==
  [][/\ orig_config_' # orig_config_ => last'.op = "SetConfig"
     /\ trust_anchors_' # trust_anchors_ => last'.op = "SetTrustAnchors"
     /\ last'.op \in {"SetTrustAnchors", "Initialize", "Verify", "Complete",
                      "Cancel"}
          => orig_config_' = orig_config_
     /\ last'.op \in {"SetConfig", "Initialize", "Verify", "Complete",
                      "Cancel"}
          => trust_anchors_' = trust_anchors_
     /\ anchor_used_callback_' = anchor_used_callback_]_vars

C14_Witness ==
  /\ last.op = "SetTrustAnchors"
  /\ last.engine_calls = 1
  /\ trust_anchors_ = <<"AnchorX">>
  /\ orig_config_.additional_trust_anchors = <<"AnchorY">>
  /\ delegate_.config.additional_trust_anchors = <<"AnchorX", "AnchorY">>
  /\ Len(reqs) = 1

\* C15: a Verify that returns pending does not run the anchor-used callback
\* before it returns, whatever the caller's result object holds then; the
\* callback can run for that request only when it is completed.
C15_PendingReturnNeverSignals ==
  \A i \in 1..Len(reqs) :
    Async(reqs[i])
      => /\ reqs[i].events[1] = "return"
         /\ reqs[i].state # "done" => reqs[i].events = <<"return">>

C15_Witness ==
  /\ Len(reqs) = 2
  /\ anchor_used_callback_ # NullCallback
  /\ reqs[2].state = "pending"
  /\ reqs[2].seen.is_issued_by_additional_trust_anchor
  /\ results[reqs[2].verify_result].is_issued_by_additional_trust_anchor
  /\ reqs[2].events = <<"return">>
  /\ last.op = "Verify"

\* C16: the caller's completion callback runs exactly once for a request whose
\* Verify returned pending and which the engine then completed, and never for
\* a request whose Verify returned a definitive status.
C16_CompletionRunsOnceIfAsync ==
  \A i \in 1..Len(reqs) :
    Count(reqs[i].events, "completion") =
      IF Async(reqs[i]) /\ reqs[i].state = "done" THEN 1 ELSE 0

C16_Witness ==
  /\ Len(reqs) = 2
  /\ reqs[1].state = "done" /\ ~Async(reqs[1]) /\ reqs[1].ret = OK
  /\ reqs[2].state = "done" /\ Async(reqs[2])
  /\ Count(reqs[2].events, "completion") = 1
  /\ Count(reqs[2].events, "anchor_used") = 1

\* C17: when the engine completes a pending request, the anchor-used callback
\* runs once if the delivered status is success, the result is flagged and the
\* callback is non-null, and not otherwise, whatever anchors and base
\* configuration are stored by then.
C17_DecisionIgnoresStoredAnchors ==
  [][(last'.op = "Complete")
       => \A i \in 1..Len(reqs) :
            (reqs[i].state = "pending" /\ reqs'[i].state = "done")
              => Count(reqs'[i].events, "anchor_used") =
                   IF /\ reqs'[i].delivered = OK
                      /\ reqs'[i].seen.is_issued_by_additional_trust_anchor
                      /\ anchor_used_callback_ # NullCallback
                   THEN 1 ELSE 0]_vars

C17_Witness ==
  /\ last.op = "Complete"
  /\ Len(reqs) = 1
  /\ reqs[1].state = "done" /\ Async(reqs[1])
  /\ reqs[1].delivered = OK
  /\ Count(reqs[1].events, "anchor_used") = 1
  /\ trust_anchors_ = <<>>
  /\ "AnchorX" \notin Range(delegate_.config.additional_trust_anchors)
  /\ orig_config_.enable_rev_checking

====
